---- MODULE Spec2Model ----
(***************************************************************************)
(* Model of the SmartForest sensor node firmware (src/src/main.cpp):       *)
(* the cooperative tasks initializeCamera, initializeStorage, takePicture, *)
(* sendReport and logUptime, the bounded report queue, the one-byte        *)
(* persistent picture counter in EEPROM cell 0, and a power cycle.         *)
(*                                                                         *)
(* Confidence values are modelled in hundredths (0.5 is 50).               *)
(***************************************************************************)
EXTENDS Integers, Sequences, FiniteSets, TLC

----------------------------------------------------------------------------
(* Program constants *)

\* #define EEPROM_SIZE 1 : one byte of EEPROM is accessed
EEPROM_SIZE == 1

\* EEPROM.read / EEPROM.write move one uint8_t: values are taken modulo 2^8
ByteRange == 256

\* cppQueue reportQueue(sizeof(PictureReportPackage), 10, FIFO)
QueueRecords == 10

\* Node identifiers are uint32_t values beyond the range of TLC's
\* integers; they are held as their decimal digits, most significant first.
\* #define DEST_NODE 3177562153
DEST_NODE == <<3, 1, 7, 7, 5, 6, 2, 1, 5, 3>>

\* newReport.nodePrefix = mesh.getNodeId() % 10000: the lowest four digits
PrefixDigits == 4
\* the index given to String::substring for the file name's prefix
SubstringFrom == 6

\* newReport.deerProbability = 0.5 (hundredths)
StubProbability == 50

\* if (newReport.deerProbability < 0.5) (hundredths)
DeerThreshold == 50

\* directory paths
PICTURES_PATH == "/pictures"
REPORTS_PATH == "/reports"
UPTIME_LOGS_PATH == "/uptimeLogs"
ERROR_LOGS_PATH == "/errorLogs"

directories == <<PICTURES_PATH, REPORTS_PATH, UPTIME_LOGS_PATH, ERROR_LOGS_PATH>>

\* Task repeat policies of the scheduler
TASK_FOREVER == -1
TASK_ONCE == 1

Tasks == {"taskInitializeCamera", "taskInitializeStorage", "taskTakePicture",
          "taskSendReport", "taskLogUptime"}

\* every task built with TASK_FOREVER
SetIterationsForever == [t \in Tasks |-> TASK_FOREVER]

\* Task X(period, iterations, &callback): the iterations each task is built with
SetIterations ==
  [t \in Tasks |-> IF t \in {"taskInitializeCamera", "taskInitializeStorage"}
                   THEN TASK_ONCE ELSE TASK_FOREVER]

----------------------------------------------------------------------------
(* Bounds of the model *)

\* report records pushed over the node's lifetime
MaxPushes == 11
\* picture files that cannot be opened, capture cycles ended by the
\* classification gate and power cycles, taken together
MaxFaults == 2
\* these faults are explored while at most this many records were pushed
FaultWindow == 1
\* the sets of directories whose creation may fail in one initialization
MkdirFailures == {{}, {PICTURES_PATH}, {UPTIME_LOGS_PATH}}

\* identifiers the mesh may assign to this node
NodeIds == {<<3, 1, 7, 7, 5, 6, 4, 2, 4, 2>>}
\* identifiers for the comparison of file names: the last four digits begin
\* with a zero, or the identifier has nine digits
NamingNodeIds == {<<3, 1, 7, 7, 5, 6, 4, 2, 4, 2>>,
                  <<3, 1, 7, 7, 5, 6, 0, 0, 4, 2>>,
                  <<3, 1, 7, 7, 5, 6, 0, 4, 2>>}
\* contents of EEPROM cell 0 when the node is first powered (255 is a blank cell)
InitialCells == {0, 255}
\* values of a classifier's score, in hundredths
Confidences == {49, 50}
\* the packages given to the wire codec: senders, picture numbers, scores
CodecNodeIds == {<<4, 2, 4, 2>>, <<3, 1, 7, 7, 5, 6, 4, 2, 4, 2>>}
CodecIndexes == {0, 17, 256}
CodecConfidences == {0, 50, 87, 100}

----------------------------------------------------------------------------
(* State *)

VARIABLES
  nodeId,         \* mesh.getNodeId()
  enabled,        \* Task::isEnabled() of every task
  iterations,     \* remaining iterations of every task
  cameraReady,    \* esp_camera_init returned ESP_OK
  sdMounted,      \* SD_MMC.begin() succeeded and a card is attached
  dirs,           \* directories that exist on the card
  uptimeLogs,     \* numbers N of the files /uptimeLogs/uptimeLogN.txt on the card
  uptimeLogPath,  \* number of the log of this run, -1 for the empty String
  uptimeLogged,   \* numbers of the uptime logs that hold at least one line
  pictures,       \* names of the picture files on the card
  eepromFlash,    \* committed content of EEPROM cell 0
  eepromData,     \* RAM copy of cell 0: <<>> before EEPROM.begin, else <<v>>
  pictureNumber,  \* int pictureNumber
  reportQueue,    \* cppQueue reportQueue
  pushed,         \* history: records pushed by takePicture
  accepted,       \* history: records for which mesh.sendPackage returned true
  evicted,        \* history: records popped by takePicture from a full queue
  lastSaved,      \* history: <<n>> when the picture file written last is number n
  lost,           \* history: the records that were queued at a restart
  pendingRetry,   \* history: <<[report, evictions]>> when the last sendPackage
                  \* of this run failed on report, after that many evictions
  writeFailures,  \* capture cycles so far whose picture file did not open
  discards,       \* capture cycles so far ended by the classification gate
  captureFailures, \* capture cycles so far ended by a missing frame
  framesHeld,     \* frame buffers got from the camera driver and not returned
  restarts,       \* power cycles so far
  codecPackage,   \* <<p>>: the PictureReportPackage handed to the wire codec
  codecMessage,   \* <<m>>: the JsonObject of a type 31 message in flight
  codecReceived   \* <<[package, accepted]>>: what the type 31 handler made of it

hw == <<cameraReady, sdMounted>>
card == <<dirs, uptimeLogs, uptimeLogPath, uptimeLogged, pictures>>
eeprom == <<eepromFlash, eepromData>>
sched == <<enabled, iterations>>
queue == <<reportQueue, pictureNumber>>
hist == <<pushed, accepted, evicted, lost, lastSaved, pendingRetry>>
count == <<writeFailures, discards, captureFailures, restarts, framesHeld>>
codec == <<codecPackage, codecMessage, codecReceived>>
vars == <<nodeId, sched, hw, card, eeprom, queue, hist, count, codec>>

\* a further fault may be explored
FaultAllowed ==
  /\ writeFailures + discards + captureFailures + restarts < MaxFaults
  /\ Len(pushed) <= FaultWindow

----------------------------------------------------------------------------
(* cppQueue, FIFO, no overwrite *)

q_isEmpty(q) == Len(q) = 0
\* a queue that counts itself full one record late
q_isFullOffByOne(q) == Len(q) = QueueRecords + 1
q_isFull(q) == Len(q) = QueueRecords
\* a LIFO peek: the record pushed last
q_peekNewest(q) == q[Len(q)]
q_peek(q) == Head(q)
\* a drop that empties the queue
q_flush(q) == <<>>
\* drop(): the head leaves without being copied out
q_drop(q) == IF q_isEmpty(q) THEN q ELSE Tail(q)
\* a LIFO pop: the record pushed last leaves
q_popNewest(q) == IF q_isEmpty(q) THEN q ELSE SubSeq(q, 1, Len(q) - 1)
q_pop(q) == IF q_isEmpty(q) THEN q ELSE Tail(q)
q_push(q, r) == IF q_isFull(q) THEN q ELSE Append(q, r)

----------------------------------------------------------------------------
(* Scheduler *)

\* a task's callback is invoked only while the task is enabled and has
\* iterations left
Runnable(t) == enabled[t] /\ iterations[t] # 0

\* the scheduler counts the iteration down before the callback; a task whose
\* iterations reached 0 is disabled by the scheduler
Executed(t) ==
  IF iterations[t] > 0 THEN [iterations EXCEPT ![t] = @ - 1] ELSE iterations

AfterRun(t, en) ==
  IF Executed(t)[t] = 0 THEN [en EXCEPT ![t] = FALSE] ELSE en

\* a setup() that leaves the periodic tasks enabled
setupEnabledPeriodic ==
  [t \in Tasks |-> t \in {"taskInitializeCamera", "taskSendReport",
                          "taskTakePicture", "taskLogUptime"}]

\* setup(): taskTakePicture, taskLogUptime, taskInitializeStorage disabled;
\* taskInitializeCamera and taskSendReport enabled
setupEnabled ==
  [t \in Tasks |-> t \in {"taskInitializeCamera", "taskSendReport"}]


\* global constructors and setup(): the volatile state of a freshly started node
Boot ==
  /\ enabled' = setupEnabled
  /\ iterations' = SetIterations
  /\ cameraReady' = FALSE
  /\ sdMounted' = FALSE
  /\ uptimeLogPath' = -1
  /\ eepromData' = <<>>
  /\ pictureNumber' = 0
  /\ reportQueue' = <<>>
  /\ pendingRetry' = <<>>

----------------------------------------------------------------------------
(* Report records *)

\* the number written with the decimal digits d
RECURSIVE DecimalValue(_)
DecimalValue(d) ==
  IF d = <<>> THEN 0
  ELSE 10 * DecimalValue(SubSeq(d, 1, Len(d) - 1)) + d[Len(d)]

\* id % 10000 of the identifier with the decimal digits id
ModuloPrefix(id) ==
  DecimalValue(SubSeq(id, IF Len(id) > PrefixDigits
                            THEN Len(id) - PrefixDigits + 1 ELSE 1, Len(id)))

\* String(n): the decimal digits of n, without leading zeros
RECURSIVE StringOf(_)
StringOf(n) ==
  IF n < 10 THEN <<n>> ELSE Append(StringOf(n \div 10), n % 10)

\* String::substring(from): the characters from index from (counted from 0)
\* to the end, none if the string is not longer than from
substring(str, from) == SubSeq(str, from + 1, Len(str))

\* the name shortId + "_" + number + ".jpg", both parts as digit strings
JpgName(shortId, number) == [shortId |-> shortId, number |-> number]

\* the file name in the path of takePicture:
\* String(mesh.getNodeId()).substring(6) + "_" + String(pictureNumber) + ".jpg"
PictureFileName(id, n) == JpgName(substring(id, SubstringFrom), StringOf(n))

\* PictureReportPackage::getFullPictureName
getFullPictureName(r) == JpgName(StringOf(r.nodePrefix), StringOf(r.pictureIndex))

\* the fields takePicture gives a new report
NewReport(id, n, conf) ==
  [from |-> id, dest |-> DEST_NODE, nodePrefix |-> ModuloPrefix(id),
   pictureIndex |-> n, deerProbability |-> conf]

\* the comparison turned around
NoDeerInverted(conf) == conf > DeerThreshold
\* if (newReport.deerProbability < 0.5)
NoDeer(conf) == conf < DeerThreshold

\* EEPROM.read(0) + 1
NextPictureNumber(cell) == cell + 1

\* EEPROM.write(0, pictureNumber): the int is narrowed to one byte
EEPROMwrite(n) == n % ByteRange

\* a commit that does not reach the flash
EEPROMcommitSkipped(flash, data) == flash
\* EEPROM.commit(): the RAM copy becomes the committed content
EEPROMcommit(flash, data) == data

\* a delivery cycle that drops the head whatever sendPackage returned
AfterSendAlwaysDrop(q, sent) == q_drop(q)
\* if (mesh.sendPackage(&firstReport)) reportQueue.drop();
AfterSend(q, sent) == IF sent THEN q_drop(q) ELSE q

\* if (reportQueue.isFull()) pop the oldest report; then push the new one
Enqueue(q, r) == q_push(IF q_isFull(q) THEN q_pop(q) ELSE q, r)

----------------------------------------------------------------------------
(* Wire codec of PictureReportPackage *)

\* PictureReportPackage() : SinglePackage(31)
PackageType == 31

\* painlessmesh::router::SINGLE, the routing of a SinglePackage
RoutingSingle == 1

\* A JsonObject is a function from the keys to variants [kind, val]; a key
\* that is absent holds the null variant.
JsonKeys == {"dest", "from", "type", "routing",
             "nodePrefix", "pictureIndex", "deerProbability"}
JsonNull == [kind |-> "null", val |-> 0]
JsonString == [kind |-> "string", val |-> 0]
JsonInt(n) == [kind |-> "int", val |-> n]
JsonUint(d) == [kind |-> "uint", val |-> d]
JsonFloat(x) == [kind |-> "float", val |-> x]

\* variant.as<int>(): an integer as it is, a float truncated, anything else 0
\* (floats are held in hundredths)
JsonAsInt(v) ==
  IF v.kind = "int" THEN v.val
  ELSE IF v.kind = "float" THEN v.val \div 100
  ELSE 0

\* variant.as<float>(): a float as it is, an integer converted, anything
\* else 0
JsonAsFloat(v) ==
  IF v.kind = "float" THEN v.val
  ELSE IF v.kind = "int" THEN v.val * 100
  ELSE 0

\* variant.as<uint32_t>() of a node identifier, anything else 0
JsonAsUint(v) == IF v.kind = "uint" THEN v.val ELSE <<0>>

\* SinglePackage::addTo: the envelope fields
SinglePackageAddTo(p) ==
  [k \in JsonKeys |->
     IF k = "dest" THEN JsonUint(p.dest)
     ELSE IF k = "from" THEN JsonUint(p.from)
     ELSE IF k = "type" THEN JsonInt(PackageType)
     ELSE IF k = "routing" THEN JsonInt(RoutingSingle)
     ELSE JsonNull]

\* an addTo that stores the node prefix under both integer keys
addToPrefixTwice(p) ==
  [SinglePackageAddTo(p) EXCEPT !["nodePrefix"] = JsonInt(p.nodePrefix),
                                !["pictureIndex"] = JsonInt(p.nodePrefix),
                                !["deerProbability"] = JsonFloat(p.deerProbability)]

\* PictureReportPackage::addTo
addTo(p) ==
  [SinglePackageAddTo(p) EXCEPT !["nodePrefix"] = JsonInt(p.nodePrefix),
                                !["pictureIndex"] = JsonInt(p.pictureIndex),
                                !["deerProbability"] = JsonFloat(p.deerProbability)]

\* PictureReportPackage(JsonObject jsonObj)
PictureReportPackage(jsonObj) ==
  [from |-> JsonAsUint(jsonObj["from"]),
   dest |-> JsonAsUint(jsonObj["dest"]),
   nodePrefix |-> JsonAsInt(jsonObj["nodePrefix"]),
   pictureIndex |-> JsonAsInt(jsonObj["pictureIndex"]),
   deerProbability |-> JsonAsFloat(jsonObj["deerProbability"])]

\* mesh.onPackage(31, handler): the handler builds the package from the
\* variant, logs it and returns true
onPackage(jsonObj) ==
  [package |-> PictureReportPackage(jsonObj), accepted |-> TRUE]

\* the custom fields of the package
CustomFields == {"nodePrefix", "pictureIndex", "deerProbability"}

\* encode: the transport asks the package for its JsonObject
codecEncode ==
  /\ codecPackage # <<>>
  /\ codecMessage = <<>>
  /\ codecMessage' = <<addTo(codecPackage[1])>>
  /\ UNCHANGED <<nodeId, sched, hw, card, eeprom, queue, hist, count,
                 codecPackage, codecReceived>>

\* a type 31 message of another sender: field is missing (null) or holds a
\* string
codecForeign(field, variant) ==
  /\ codecMessage # <<>>
  /\ codecMessage[1] = addTo(codecPackage[1])
  /\ codecReceived = <<>>
  /\ codecMessage' = <<[codecMessage[1] EXCEPT ![field] = variant]>>
  /\ UNCHANGED <<nodeId, sched, hw, card, eeprom, queue, hist, count,
                 codecPackage, codecReceived>>

\* the receiving node dispatches the message to the type 31 handler
codecReceive ==
  /\ codecMessage # <<>>
  /\ codecReceived = <<>>
  /\ codecReceived' = <<onPackage(codecMessage[1])>>
  /\ UNCHANGED <<nodeId, sched, hw, card, eeprom, queue, hist, count,
                 codecPackage, codecMessage>>

----------------------------------------------------------------------------
(* Tasks *)

\* initializeCamera(): ok is the outcome of esp_camera_init
initializeCamera(ok) ==
  /\ Runnable("taskInitializeCamera")
  /\ iterations' = Executed("taskInitializeCamera")
  /\ IF ok
       THEN /\ cameraReady' = TRUE
            /\ enabled' = [enabled EXCEPT !["taskInitializeStorage"] = TRUE,
                                          !["taskInitializeCamera"] = FALSE]
       ELSE /\ cameraReady' = FALSE
            /\ enabled' = AfterRun("taskInitializeCamera", enabled)
  /\ UNCHANGED <<nodeId, codec, sdMounted, card, eeprom, queue, hist, count>>

\* the directories on the card after the creation loop; made is the set of
\* directories whose mkdir succeeds
CreateDirectories(existing, made) ==
  existing \cup {directories[i] : i \in {j \in 1..Len(directories) :
                                          directories[j] \in made}}

\* the first log number whose file does not exist (do ... while (fs.exists))
RECURSIVE FreeLogNumber(_, _)
FreeLogNumber(logs, n) == IF n \in logs THEN FreeLogNumber(logs, n + 1) ELSE n

\* an end of initializeStorage that leaves the uptime logger as it is
StorageReadyTasksWithoutLogger(en) ==
  [en EXCEPT !["taskTakePicture"] = TRUE,
             !["taskInitializeStorage"] = FALSE]

\* the end of initializeStorage: taskTakePicture.enableIfNot(),
\* taskLogUptime.enableIfNot(), taskInitializeStorage.disable()
StorageReadyTasks(en) ==
  [en EXCEPT !["taskTakePicture"] = TRUE,
             !["taskLogUptime"] = TRUE,
             !["taskInitializeStorage"] = FALSE]

\* initializeStorage(): mount is the outcome of SD_MMC.begin(), hasCard of
\* cardType() != CARD_NONE, made the directories whose mkdir would succeed,
\* logOpens the outcome of opening the new uptime log
initializeStorage(mount, hasCard, made, logOpens) ==
  /\ Runnable("taskInitializeStorage")
  /\ iterations' = Executed("taskInitializeStorage")
  /\ sdMounted' = (mount /\ hasCard)
  /\ IF ~mount \/ ~hasCard
       THEN /\ enabled' = AfterRun("taskInitializeStorage", enabled)
            /\ UNCHANGED <<card, eeprom>>
       ELSE LET logNumber == FreeLogNumber(uptimeLogs, 0) IN
            /\ dirs' = CreateDirectories(dirs, made)
            /\ logOpens => UPTIME_LOGS_PATH \in dirs'
            /\ IF logOpens
                 THEN /\ uptimeLogs' = uptimeLogs \cup {logNumber}
                      /\ uptimeLogPath' = logNumber
                 ELSE UNCHANGED <<uptimeLogs, uptimeLogPath>>
            /\ eepromData' = <<eepromFlash>>
            /\ enabled' = StorageReadyTasks(enabled)
            /\ UNCHANGED <<uptimeLogged, pictures, eepromFlash>>
  /\ UNCHANGED <<nodeId, codec, cameraReady, queue, hist, count>>

\* A capture cycle that holds a frame ends on the exit path "discard", the
\* return of the classification gate, or on "push", the end of the function.

\* exit paths that return the frame, without the one of the gate
ReturnsFrameAtEndOnly == {"push"}

\* exit paths on which esp_camera_fb_return(fb) is called
ReturnsFrame == {"discard", "push"}

\* the number of frames the exit path gives back to the driver
esp_camera_fb_return(exit) == IF exit \in ReturnsFrame THEN 1 ELSE 0

\* a capture cycle that tests no frame pointer
FrameMissingIgnored(frame) == FALSE

\* if (!fb): esp_camera_fb_get returned no frame
FrameMissing(frame) == ~frame

\* takePicture(): frame is the outcome of esp_camera_fb_get, fileOpens of
\* fs.open(path, FILE_WRITE), conf the probability given to the report
takePicture(frame, fileOpens, conf) ==
  /\ Runnable("taskTakePicture")
  /\ iterations' = Executed("taskTakePicture")
  /\ enabled' = AfterRun("taskTakePicture", enabled)
  /\ IF FrameMissing(frame)
       THEN /\ FaultAllowed
            /\ captureFailures' = captureFailures + 1
            /\ UNCHANGED <<card, eeprom, queue, hist, writeFailures,
                           discards, restarts, framesHeld>>
       ELSE LET number == NextPictureNumber(eepromData[1])
                newReport == NewReport(nodeId, number, conf)
                exit == IF NoDeer(conf) THEN "discard" ELSE "push" IN
            /\ eepromData # <<>>
            /\ framesHeld' = framesHeld + 1 - esp_camera_fb_return(exit)
            /\ fileOpens => PICTURES_PATH \in dirs
            /\ pictureNumber' = number
            /\ IF fileOpens
                 THEN /\ pictures' = pictures \cup {PictureFileName(nodeId, number)}
                      /\ eepromData' = <<EEPROMwrite(number)>>
                      /\ eepromFlash' = EEPROMcommit(eepromFlash, eepromData'[1])
                      /\ lastSaved' = <<number>>
                      /\ UNCHANGED writeFailures
                 ELSE /\ FaultAllowed
                      /\ writeFailures' = writeFailures + 1
                      /\ UNCHANGED <<pictures, eeprom, lastSaved>>
            /\ IF NoDeer(conf)
                 THEN /\ FaultAllowed
                      /\ discards' = discards + 1
                      /\ UNCHANGED <<reportQueue, pushed, evicted>>
                 ELSE /\ Len(pushed) < MaxPushes
                      /\ reportQueue' = Enqueue(reportQueue, newReport)
                      /\ pushed' = Append(pushed, newReport)
                      /\ evicted' = IF q_isFull(reportQueue)
                                      THEN Append(evicted, q_peek(reportQueue))
                                      ELSE evicted
                      /\ UNCHANGED discards
            /\ UNCHANGED <<dirs, uptimeLogs, uptimeLogPath, uptimeLogged,
                           accepted, lost, pendingRetry, captureFailures,
                           restarts>>
  /\ UNCHANGED <<nodeId, codec, hw>>

\* sendReport(): sent is the value mesh.sendPackage returns
sendReport(sent) ==
  /\ Runnable("taskSendReport")
  /\ iterations' = Executed("taskSendReport")
  /\ enabled' = AfterRun("taskSendReport", enabled)
  /\ IF q_isEmpty(reportQueue)
       THEN UNCHANGED <<reportQueue, accepted, pendingRetry>>
       ELSE LET firstReport == q_peek(reportQueue) IN
            /\ reportQueue' = AfterSend(reportQueue, sent)
            /\ IF sent
                 THEN /\ accepted' = Append(accepted, firstReport)
                      /\ pendingRetry' = <<>>
                 ELSE /\ pendingRetry' = <<[report |-> firstReport,
                                           evictions |-> Len(evicted)]>>
                      /\ UNCHANGED accepted
  /\ UNCHANGED <<nodeId, codec, hw, card, eeprom, pictureNumber, pushed, evicted,
                 lost, lastSaved, count>>

\* logUptime(): opens is the outcome of fs.open(uptimeLogPath, FILE_APPEND)
logUptime(opens) ==
  /\ Runnable("taskLogUptime")
  /\ iterations' = Executed("taskLogUptime")
  /\ enabled' = AfterRun("taskLogUptime", enabled)
  /\ opens => uptimeLogPath # -1
  /\ IF opens
       THEN uptimeLogged' = uptimeLogged \cup {uptimeLogPath}
       ELSE UNCHANGED uptimeLogged
  /\ UNCHANGED <<nodeId, codec, hw, dirs, uptimeLogs, uptimeLogPath, pictures, eeprom,
                 queue, hist, count>>

\* a power cycle between two tasks: RAM is lost, the card and the committed
\* EEPROM content survive, the globals are constructed anew and setup() runs
Restart ==
  /\ FaultAllowed
  /\ restarts' = restarts + 1
  /\ framesHeld' = 0
  /\ lost' = lost \o reportQueue
  /\ Boot
  /\ UNCHANGED <<nodeId, codec, dirs, uptimeLogs, uptimeLogged, pictures, eepromFlash,
                 pushed, accepted, evicted, lastSaved, writeFailures, discards,
                 captureFailures>>

----------------------------------------------------------------------------
(* Specifications *)

\* the node after its first setup(), with one of the identifiers ids
NodeInit(ids) ==
  /\ nodeId \in ids
  /\ enabled = setupEnabled
  /\ iterations = SetIterations
  /\ cameraReady = FALSE
  /\ sdMounted = FALSE
  /\ dirs = {}
  /\ uptimeLogs = {}
  /\ uptimeLogPath = -1
  /\ uptimeLogged = {}
  /\ pictures = {}
  /\ eepromFlash \in InitialCells
  /\ eepromData = <<>>
  /\ pictureNumber = 0
  /\ reportQueue = <<>>
  /\ pushed = <<>>
  /\ accepted = <<>>
  /\ evicted = <<>>
  /\ lastSaved = <<>>
  /\ pendingRetry = <<>>
  /\ lost = <<>>
  /\ writeFailures = 0
  /\ discards = 0
  /\ captureFailures = 0
  /\ framesHeld = 0
  /\ restarts = 0

Init ==
  /\ NodeInit(NodeIds)
  /\ codecPackage = <<>>
  /\ codecMessage = <<>>
  /\ codecReceived = <<>>

DirectorySets ==
  {{directories[i] : i \in 1..Len(directories)} \ f : f \in MkdirFailures}

InitializeCamera == \E ok \in BOOLEAN : initializeCamera(ok)

InitializeStorage ==
  \E mount \in BOOLEAN, hasCard \in BOOLEAN, made \in DirectorySets,
     logOpens \in BOOLEAN : initializeStorage(mount, hasCard, made, logOpens)

\* the firmware as written: every report gets the probability 0.5
TakePicture ==
  \E frame \in BOOLEAN, fileOpens \in BOOLEAN :
    takePicture(frame, fileOpens, StubProbability)

\* the firmware with a classifier in place of the constant
TakePictureClassified ==
  \E frame \in BOOLEAN, fileOpens \in BOOLEAN, conf \in Confidences :
    takePicture(frame, fileOpens, conf)

SendReport == \E sent \in BOOLEAN : sendReport(sent)

LogUptime == \E opens \in BOOLEAN : logUptime(opens)

Next ==
  \/ InitializeCamera
  \/ InitializeStorage
  \/ TakePicture
  \/ SendReport
  \/ LogUptime
  \/ Restart

Spec == Init /\ [][Next]_vars

NextClassified ==
  \/ InitializeCamera
  \/ InitializeStorage
  \/ TakePictureClassified
  \/ SendReport
  \/ LogUptime
  \/ Restart

SpecClassified == Init /\ [][NextClassified]_vars

\* the node with any of the identifiers NamingNodeIds
InitNaming ==
  /\ NodeInit(NamingNodeIds)
  /\ codecPackage = <<>>
  /\ codecMessage = <<>>
  /\ codecReceived = <<>>

SpecNaming == InitNaming /\ [][Next]_vars

\* loop() calls mesh.update(), which executes the scheduler: a task that
\* stays enabled with iterations left is eventually run
SpecFair ==
  /\ Init
  /\ [][Next]_vars
  /\ WF_vars(InitializeCamera)
  /\ WF_vars(InitializeStorage)

\* the packages handed to the codec
CodecPackages ==
  {NewReport(id, n, conf) :
     id \in CodecNodeIds, n \in CodecIndexes, conf \in CodecConfidences}

InitCodec ==
  /\ NodeInit(NodeIds)
  /\ codecPackage \in {<<p>> : p \in CodecPackages}
  /\ codecMessage = <<>>
  /\ codecReceived = <<>>

CodecEncode == codecEncode

CodecForeign ==
  \E field \in CustomFields, variant \in {JsonNull, JsonString} :
    codecForeign(field, variant)

CodecReceive == codecReceive

NextCodec ==
  \/ CodecEncode
  \/ CodecForeign
  \/ CodecReceive

SpecCodec == InitCodec /\ [][NextCodec]_vars

----------------------------------------------------------------------------
(* Properties *)

\* every custom field of the message is present and holds a number
WellFormed(jsonObj) ==
  \A field \in CustomFields : jsonObj[field].kind \in {"int", "float"}

\* C11: a package encoded with addTo and decoded with the constructor from
\* JsonObject is equal to the original in node prefix, picture index,
\* probability, origin and destination.
C11_RoundTrip ==
  (codecReceived # <<>> /\ codecMessage[1] = addTo(codecPackage[1]))
    => LET p == codecPackage[1]
           q == codecReceived[1].package IN
       /\ q.nodePrefix = p.nodePrefix
       /\ q.pictureIndex = p.pictureIndex
       /\ q.deerProbability = p.deerProbability
       /\ q.from = p.from
       /\ q.dest = p.dest

\* the package of the spec's example went through the codec unchanged
C11_Witness ==
  /\ codecReceived # <<>>
  /\ codecMessage[1] = addTo(codecPackage[1])
  /\ codecPackage[1].from = <<4, 2, 4, 2>>
  /\ codecPackage[1].nodePrefix = 4242
  /\ codecPackage[1].pictureIndex = 17
  /\ codecPackage[1].deerProbability = 87

\* C12 as claimed: a type 31 message in which a custom field is missing or
\* not a number is not accepted by the handler.
C12_FailClosed ==
  (codecReceived # <<>> /\ ~WellFormed(codecMessage[1]))
    => ~codecReceived[1].accepted

\* steps of the tasks, told by the history they leave
PushStep == Len(pushed') = Len(pushed) + 1
AcceptStep == Len(accepted') = Len(accepted) + 1
FailedSendStep == \E sent \in {FALSE} :
                    sendReport(sent) /\ ~q_isEmpty(reportQueue)
WriteFailureStep == writeFailures' = writeFailures + 1
SavedStep == \E conf \in Confidences \cup {StubProbability} :
               takePicture(TRUE, TRUE, conf)
RestartStep == restarts' = restarts + 1

\* C1: in every reachable state the report queue holds at most 10 records.
C1_QueueBounded == Len(reportQueue) <= 10

\* the queue filled up to its capacity and a further push took place
C1_Witness == Len(reportQueue) = 10 /\ Len(pushed) > 10

\* C2: a push onto a queue of 10 records evicts exactly the head, the former
\* second record becomes the head, the new record is at the tail, the order
\* of the others is kept and the length stays 10; a push onto a shorter queue
\* evicts nothing.
C2_DropOldest ==
  [][PushStep =>
       LET newReport == pushed'[Len(pushed')] IN
       IF Len(reportQueue) = 10
         THEN /\ reportQueue' = Append(Tail(reportQueue), newReport)
              /\ Len(reportQueue') = 10
              /\ reportQueue'[1] = reportQueue[2]
              /\ evicted' = Append(evicted, Head(reportQueue))
         ELSE /\ reportQueue' = Append(reportQueue, newReport)
              /\ evicted' = evicted]_vars

\* an overflow push happened: one record was evicted, the queue is full
C2_Witness == Len(evicted) = 1 /\ Len(reportQueue) = 10

\* a is an order-preserving subsequence of p
RECURSIVE IsSubsequence(_, _)
IsSubsequence(a, p) ==
  IF a = <<>> THEN TRUE
  ELSE IF p = <<>> THEN FALSE
  ELSE IF Head(a) = Head(p) THEN IsSubsequence(Tail(a), Tail(p))
  ELSE IsSubsequence(a, Tail(p))

\* C3: the records the transport accepted are, in order, a subsequence of the
\* records pushed, and a successful delivery cycle removes exactly the record
\* it sent, the head, from the queue.
C3_DeliveryOrder ==
  /\ IsSubsequence(accepted, pushed)
  /\ [][/\ IsSubsequence(accepted', pushed')
        /\ AcceptStep => /\ reportQueue # <<>>
                         /\ accepted'[Len(accepted')] = Head(reportQueue)
                         /\ reportQueue' = Tail(reportQueue)]_vars

\* several records were delivered while others were still waiting
C3_Witness == Len(accepted) >= 2 /\ Len(reportQueue) >= 2

\* a delivery attempt of this step: the record handed to the transport
Attempted(r) ==
  \/ AcceptStep /\ accepted'[Len(accepted')] = r
  \/ /\ pendingRetry' # <<>>
     /\ pendingRetry' # pendingRetry
     /\ pendingRetry'[1].report = r

AttemptStep == AcceptStep \/ (pendingRetry' # <<>> /\ pendingRetry' # pendingRetry)

\* C4 as claimed: a failed send leaves the queue unchanged and the next
\* attempt sends the same record, whatever capture cycles ran in between.
C4_RetrySameAlways ==
  [][/\ FailedSendStep => reportQueue' = reportQueue
     /\ (pendingRetry # <<>> /\ ~RestartStep /\ AttemptStep)
          => Attempted(pendingRetry[1].report)]_vars

\* C4 amended: a failed send leaves the queue unchanged, and the next attempt
\* of the same run sends the same record unless a capture cycle evicted a
\* record from the full queue in between.
C4_RetrySameUnlessEvicted ==
  [][/\ FailedSendStep => reportQueue' = reportQueue
     /\ (/\ pendingRetry # <<>>
         /\ Len(evicted) = pendingRetry[1].evictions
         /\ ~RestartStep
         /\ AttemptStep)
          => Attempted(pendingRetry[1].report)]_vars

\* a send failed, no record was evicted since, and the failed record waits
\* at the head of a full queue for the next attempt
C4_Witness ==
  /\ pendingRetry # <<>>
  /\ Len(evicted) = pendingRetry[1].evictions
  /\ Len(reportQueue) = 10
  /\ Head(reportQueue) = pendingRetry[1].report

\* C5 as claimed: a capture cycle that saves its picture leaves EEPROM cell 0
\* at its former value plus 1.
C5_CounterPlusOne ==
  [][SavedStep => eepromFlash' = eepromFlash + 1]_vars

\* C6 as claimed: a capture cycle whose picture file cannot be opened neither
\* advances the counter nor pushes a report.
C6_NoReportOnWriteFailure ==
  [][WriteFailureStep => /\ eepromFlash' = eepromFlash
                         /\ reportQueue' = reportQueue
                         /\ pushed' = pushed]_vars

\* C7 as claimed: no two records pushed onto the queue carry the same
\* pictureIndex.
C7_UniqueSequenceNumbers ==
  \A i, j \in 1..Len(pushed) :
    i # j => pushed[i].pictureIndex # pushed[j].pictureIndex

\* C8: the capture task and the uptime logger can run only when the camera
\* and then the storage were initialized successfully in this run; storage is
\* initialized only after the camera.
C8_InitializationOrder ==
  /\ (Runnable("taskTakePicture") \/ Runnable("taskLogUptime"))
       => (cameraReady /\ sdMounted)
  /\ (sdMounted \/ Runnable("taskInitializeStorage")) => cameraReady

\* both periodic tasks have run: a capture cycle acquired a frame and the
\* uptime logger appended a line to the log of this run
C8_Witness ==
  /\ pictureNumber > 0
  /\ uptimeLogPath \in uptimeLogged
  /\ cameraReady
  /\ sdMounted

\* C9: a capture cycle whose report has a probability below 0.5 leaves the
\* queue unchanged, and no record in the queue has a probability below 0.5.
C9_ClassificationGate ==
  /\ \A i \in 1..Len(reportQueue) : reportQueue[i].deerProbability >= 50
  /\ [][/\ \A i \in 1..Len(reportQueue') :
             reportQueue'[i].deerProbability >= 50
        /\ \A conf \in Confidences :
             (conf < 50 /\ \E frame, fileOpens \in BOOLEAN :
                             takePicture(frame, fileOpens, conf))
               => (reportQueue' = reportQueue /\ pushed' = pushed)]_vars

\* a capture cycle was ended by the gate while records were waiting
C9_Witness == discards > 0 /\ reportQueue # <<>>

\* C10: a restart keeps the committed counter and empties the queue, and the
\* counter a capture cycle reads is the value stored for the picture saved
\* last, also after a restart.
C10_RestartKeepsCounter ==
  /\ (eepromData # <<>> /\ lastSaved # <<>>) => eepromData[1] = lastSaved[1] % 256
  /\ [][/\ (eepromData' # <<>> /\ lastSaved' # <<>>)
             => eepromData'[1] = lastSaved'[1] % 256
        /\ RestartStep => (eepromFlash' = eepromFlash /\ reportQueue' = <<>>)]_vars

\* after a restart, storage is initialized again and no capture cycle ran yet
\* since; a picture had been saved and a report had been waiting before
C10_Witness ==
  /\ restarts > 0
  /\ eepromData # <<>>
  /\ lastSaved # <<>>
  /\ pictureNumber = 0
  /\ Len(pushed) > Len(accepted)


\* C13 as claimed: when a capture cycle pushes a report, the pictureIndex of
\* the report is the value EEPROM cell 0 holds, written and committed, at
\* that moment.
C13_IndexIsCommittedCounter ==
  [][PushStep => pushed'[Len(pushed')].pictureIndex = eepromFlash']_vars


\* a capture cycle in which esp_camera_fb_get returns no frame
FrameFailureStep ==
  \E fileOpens \in BOOLEAN, conf \in Confidences \cup {StubProbability} :
    takePicture(FALSE, fileOpens, conf)

\* C14: a capture cycle that gets no frame changes neither the report queue,
\* nor the persistent counter, nor the stored pictures, nor which tasks are
\* enabled.
C14_FrameFailureNoEffect ==
  [][FrameFailureStep =>
       /\ reportQueue' = reportQueue
       /\ pushed' = pushed
       /\ eepromFlash' = eepromFlash
       /\ eepromData' = eepromData
       /\ pictures' = pictures
       /\ enabled' = enabled]_vars

\* a capture cycle got no frame while a report was queued and a picture
\* stored
C14_Witness ==
  /\ captureFailures > 0
  /\ reportQueue # <<>>
  /\ pictures # {}


\* C15: between capture cycles no frame buffer is held: every cycle that got
\* a frame returned it exactly once, whether the picture file could not be
\* written, the report was discarded, or it was pushed with or without an
\* overflow.
C15_FrameReleased == framesHeld = 0

\* capture cycles ended on every exit path: a failed write, a discard and an
\* overflow push
C15_Witness ==
  /\ writeFailures > 0
  /\ discards > 0
  /\ evicted # <<>>
  /\ Len(pushed) > 10


\* steps of the two initialization tasks
InitializeCameraStep == \E ok \in BOOLEAN : initializeCamera(ok)
InitializeStorageStep ==
  \E mount, hasCard, logOpens \in BOOLEAN, made \in DirectorySets :
    initializeStorage(mount, hasCard, made, logOpens)

\* camera initialization has run in this lifetime and failed
CameraFailed == iterations["taskInitializeCamera"] = 0 /\ ~cameraReady

\* storage initialization has run in this lifetime and failed
StorageFailed == iterations["taskInitializeStorage"] = 0 /\ ~sdMounted

\* after a failed initialization nothing downstream of it is enabled, and the
\* failed task itself is disabled
StuckBeforeReady ==
  /\ CameraFailed =>
       /\ ~enabled["taskInitializeCamera"]
       /\ ~enabled["taskInitializeStorage"]
       /\ iterations["taskInitializeStorage"] = TASK_ONCE
       /\ ~enabled["taskTakePicture"]
       /\ ~enabled["taskLogUptime"]
  /\ StorageFailed =>
       /\ ~enabled["taskInitializeStorage"]
       /\ ~enabled["taskTakePicture"]
       /\ ~enabled["taskLogUptime"]

\* C16: each initialization task runs at most once in a lifetime, succeed
\* or fail: it runs with its single iteration, which is then used up and not
\* given back before a restart. After a failed camera initialization the
\* storage task is never enabled; after a failed storage initialization the
\* capture task and the uptime logger are never enabled.
C16_InitializeOnceNoRetry ==
  /\ StuckBeforeReady
  /\ [][/\ StuckBeforeReady'
        /\ InitializeCameraStep =>
             /\ iterations["taskInitializeCamera"] = TASK_ONCE
             /\ iterations'["taskInitializeCamera"] = 0
             /\ ~enabled'["taskInitializeCamera"]
        /\ InitializeStorageStep =>
             /\ iterations["taskInitializeStorage"] = TASK_ONCE
             /\ iterations'["taskInitializeStorage"] = 0
             /\ ~enabled'["taskInitializeStorage"]
        /\ ~RestartStep =>
             /\ \A t \in {"taskInitializeCamera", "taskInitializeStorage"} :
                  iterations'[t] <= iterations[t]
             /\ CameraFailed => CameraFailed'
             /\ StorageFailed => StorageFailed'
       ]_vars

\* the camera was initialized, storage initialization ran and failed, and
\* the delivery task went on running
C16_Witness ==
  /\ cameraReady
  /\ StorageFailed
  /\ pendingRetry = <<>>
  /\ Runnable("taskSendReport")


\* C17 as claimed: whenever the capture task or the uptime logger can run,
\* the card is mounted and the four directories exist, however the mkdir
\* calls of storage initialization ended.
C17_DirectoriesExist ==
  (Runnable("taskTakePicture") \/ Runnable("taskLogUptime"))
    => /\ sdMounted
       /\ \A i \in 1..Len(directories) : directories[i] \in dirs


\* the capture task and the uptime logger are enabled, the two
\* initialization tasks are disabled
Operational ==
  /\ Runnable("taskTakePicture")
  /\ Runnable("taskLogUptime")
  /\ ~enabled["taskInitializeCamera"]
  /\ ~enabled["taskInitializeStorage"]

\* C18: once the camera is initialized, the storage task is eventually run,
\* and unless the mount fails (or the node is restarted first) the node
\* becomes Operational; a node whose camera and card are both ready is
\* Operational, and stays so through every capture, write and transport
\* failure until it is restarted.
C18_EventuallyOperational ==
  /\ cameraReady ~> (Operational \/ StorageFailed \/ ~cameraReady)
  /\ (cameraReady /\ sdMounted) => Operational
  /\ [][/\ (cameraReady' /\ sdMounted') => Operational'
        /\ (Operational /\ ~RestartStep) => Operational']_vars

\* the node is Operational after a capture without a frame, a failed write
\* of a picture and a failed send
C18_Witness ==
  /\ Operational
  /\ captureFailures > 0
  /\ writeFailures > 0
  /\ pendingRetry # <<>>


\* the number of times the record r occurs in the sequence q
Occurrences(q, r) == Cardinality({i \in 1..Len(q) : q[i] = r})

\* the records of a sequence
Records(q) == {q[i] : i \in 1..Len(q)}

\* every record of all is in exactly one of the places, and nothing else
\* is in any of them
Conserved(all, places) ==
  /\ Len(all) = Len(places)
  /\ \A r \in Records(all) : Occurrences(all, r) = Occurrences(places, r)

\* a step that pushes a record or takes one from the queue
RecordsMoved == pushed' # pushed \/ reportQueue' # reportQueue

\* a delivery cycle
SendStep == \E sent \in BOOLEAN : sendReport(sent)

\* a delivery cycle hands at most one record to the transport, none when the
\* queue is empty, and removes from the queue only the record the transport
\* accepted
SendsHeadOnly ==
  SendStep =>
    /\ q_isEmpty(reportQueue) =>
         /\ reportQueue' = reportQueue
         /\ accepted' = accepted
         /\ pendingRetry' = pendingRetry
    /\ Len(accepted') <= Len(accepted) + 1
    /\ \/ reportQueue' = reportQueue /\ accepted' = accepted
       \/ /\ reportQueue' = Tail(reportQueue)
          /\ accepted' = Append(accepted, Head(reportQueue))
    /\ pushed' = pushed /\ evicted' = evicted /\ lost' = lost

\* C19 as claimed: every record ever pushed is in exactly one of three
\* places: in the queue, accepted by the transport, or evicted by an
\* overflow push; a delivery cycle sends at most the head and removes
\* only what was accepted.
C19_ThreePlaces ==
  /\ Conserved(pushed, reportQueue \o accepted \o evicted)
  /\ [][/\ RecordsMoved =>
             Conserved(pushed', reportQueue' \o accepted' \o evicted')
        /\ SendsHeadOnly]_vars

\* C19, amended: every record ever pushed is in exactly one of four places:
\* in the queue, accepted by the transport, evicted by an overflow push, or
\* lost with the queue at a restart; a delivery cycle sends at most the head
\* and removes only what was accepted.
C19_FourPlaces ==
  /\ Conserved(pushed, reportQueue \o accepted \o evicted \o lost)
  /\ [][/\ RecordsMoved =>
             Conserved(pushed', reportQueue' \o accepted' \o evicted' \o lost')
        /\ SendsHeadOnly]_vars

\* a record was lost at a restart; of the records pushed since one was
\* accepted and others are queued
C19_Witness ==
  /\ lost # <<>>
  /\ accepted # <<>>
  /\ Len(reportQueue) > 1


\* C20 as claimed: the name of the file a capture cycle writes is the name
\* getFullPictureName gives for the report of the same cycle, for every node
\* identifier and picture number.
C20_SameArtifactName ==
  [][(SavedStep /\ PushStep) =>
       /\ PictureFileName(nodeId, pictureNumber') \in pictures'
       /\ PictureFileName(nodeId, pictureNumber')
            = getFullPictureName(pushed'[Len(pushed')])]_vars

====
